---- MODULE Spec2Model ----
(***************************************************************************)
(* State-machine model of src/demo.py: the driver render(args) that turns  *)
(* one photo into a space-time video.  One action per statement group of   *)
(* render(); the values returned by the library calls (renderer, warper,   *)
(* camera path, model loading) are drawn from small sets.                  *)
(***************************************************************************)
EXTENDS Integers, Sequences, FiniteSets, TLC

VARIABLES
    pc,            \* position in render()
    n_frames,      \* args.n_frames
    flow_scale,    \* args.flow_scale
    registry,      \* path types define_camera_path knows (library state)
    calls,         \* how often each collaborator operation has been invoked
    img_size,      \* <<h, w>> of the tensor render_pcd returns
    scene,         \* coord, pts_src, featmaps_src, rgba/depth/mask layers
    flow,          \* the scaled flow field
    T,             \* camera path, one transform per frame
    kernel,        \* dilation kernel
    start_index,
    end_index,
    iter,          \* items of enumerate(time_steps) consumed so far
    middle_index,
    t_step,
    time,
    flow_f,
    flow_b,
    all_pts_f,     \* per-layer point counts of the forward pass
    all_pts_b,     \* per-layer point counts of the backward pass
    all_pts_flowed,\* number of points after torch.cat
    all_side_ids,  \* the side-tag vector
    pred_img,      \* what render_pcd was last asked for / returned
    frames,
    video,         \* what imageio.mimwrite was handed
    failure        \* the exception that ended the run, if any

vars == <<pc, n_frames, flow_scale, registry, calls, img_size, scene, flow, T,
          kernel, start_index, end_index, iter, middle_index, t_step, time,
          flow_f, flow_b, all_pts_f, all_pts_b, all_pts_flowed, all_side_ids,
          pred_img, frames, video, failure>>

static == <<scene, flow, T, kernel, start_index, end_index>>

None == "None"

----------------------------------------------------------------------------
(* Bounds of the model *)

MaxFrames == 3
MaxPts == 1
ProbeWindow == 10

(* Program constants *)

crop == 32
KernelSize == 5
Fps == 25
Quality == 8
F32Mantissa == 24

(* Input sets *)

FlowScales == {1, 2}
RawFlows == {-2, 2}
LayerChoices == {1, 2}
RenderSizes == {<<64, 64>>, <<96, 80>>}
Registries == {{"straight-line", "double-straight-line", "circle"},
               {"straight-line", "circle"}}

Ops == {"run_dpt", "process_data", "compute_flow_and_inpaint",
        "define_camera_path", "euler_integration",
        "compute_scene_flow_for_motion", "render_pcd", "mimwrite"}

RendererOps == {"process_data", "compute_flow_and_inpaint", "euler_integration",
                "compute_scene_flow_for_motion", "render_pcd"}

----------------------------------------------------------------------------
(* Helpers *)

Max(a, b) == IF a > b THEN a ELSE b
Min(a, b) == IF a < b THEN a ELSE b
Abs(x) == IF x < 0 THEN -x ELSE x

RECURSIVE Pow2(_)
Pow2(k) == IF k = 0 THEN 1 ELSE 2 * Pow2(k - 1)

RECURSIVE SumLen(_)
\* sum([len(x) for x in pts])
SumLen(pts) == IF pts = <<>> THEN 0 ELSE Head(pts) + SumLen(Tail(pts))

\* all sequences of n per-layer point counts, each in 0..MaxPts
LayerCounts(n) == [1..n -> 0..MaxPts]

Invoke(c, op) == [c EXCEPT ![op] = @ + 1]

----------------------------------------------------------------------------
(* Pure functions of the driver *)

RECURSIVE BitLen(_)
BitLen(x) == IF x = 0 THEN 0 ELSE 1 + BitLen(x \div 2)

\* tensor.float(): an integer value rounded to float32 (24-bit significand,
\* round to nearest, ties to even).  Exact for |x| <= 2^24.
F32(x) ==
    LET a == Abs(x)
        u == Pow2(Max(0, BitLen(a) - F32Mantissa))
        q == a \div u
        r == a % u
        m == IF 2 * r < u THEN q
             ELSE IF 2 * r > u THEN q + 1
             ELSE IF q % 2 = 0 THEN q ELSE q + 1
    IN  IF x < 0 THEN -(m * u) ELSE m * u

\* range(a, b): its length
RangeLen(a, b) == IF b > a THEN b - a ELSE 0

\* time = (middle.float() - start.float()).float()
\*        / (end.float() - start.float() + 1.0).float()
\* kept as the pair of float32 operands of the final division
TimeOfNoPlusOne(mi, si, ei) ==
    [num |-> F32(F32(mi) - F32(si)), den |-> F32(F32(ei) - F32(si))]

TimeOf(mi, si, ei) ==
    [num |-> F32(F32(mi) - F32(si)), den |-> F32(F32(F32(ei) - F32(si)) + 1)]

\* order of two quotients with positive denominators; the float32 division
\* rounds monotonically and a quotient of two float32 values num < den is at
\* most 1 - 2^-24, which is a float32, so these comparisons are those of the
\* rounded quotients whenever the denominators agree
TimeIsZero(t) == t.den > 0 /\ t.num = 0
TimeBelowOne(t) == t.den > 0 /\ t.num < t.den
TimeLess(a, b) ==
    /\ a.den > 0
    /\ b.den > 0
    /\ IF a.den = b.den THEN a.num < b.num ELSE a.num * b.den < b.num * a.den

\* steps handed to euler_integration
ForwardSteps(mi, si) == mi - si

BackwardStepsNoPlusOne(mi, ei) == ei - mi

BackwardSteps(mi, ei) == ei + 1 - mi

\* renderer.euler_integration(field, steps): fixed-field Euler accumulation
euler_integration(field, steps) ==
    [field |-> field, steps |-> steps, disp |-> field * steps]

\* flow / args.flow_scale (the inputs divide exactly)
ScaleFlow(raw, s) == raw \div s

\* Python's normalisation of a slice bound s for a sequence of length len
SliceBound(len, s) ==
    IF s < 0 THEN Max(len + s, 0) ELSE Min(s, len)

\* all_side_ids = zeros(n); all_side_ids[-num_pts_2:] = 1
SideIds(n, num_pts_2) ==
    [k \in 1..n |-> IF k > SliceBound(n, -num_pts_2) THEN 1 ELSE 0]

\* frame[crop:-crop, crop:-crop]
CropLen(len) == Max(0, SliceBound(len, -crop) - SliceBound(len, crop))
CropShape(shape) == <<CropLen(shape[1]), CropLen(shape[2])>>

\* frames.append(frame)
PrependFrame(fs, f) == <<f>> \o fs

AppendFrame(fs, f) == Append(fs, f)

\* the for loop over enumerate(time_steps) is exhausted
LoopExhausted(k, n) == k >= n

\* the path type the driver asks define_camera_path for
PathType == "double-straight-line"
VideoPath == "side"

\* define_camera_path(num, ..., path_type, return_t_only=True): one
\* translation per frame, out and back, the first being the identity;
\* an unknown tag is refused
define_camera_path(num, path_type, reg) ==
    IF path_type \notin reg
    THEN "UnsupportedPathType"
    ELSE [k \in 1..num |-> Min(k - 1, num - k)]

----------------------------------------------------------------------------
(* The state after argument parsing, before render(args) runs *)

Init ==
    /\ pc = "start"
    /\ n_frames \in 0..MaxFrames
    /\ flow_scale \in FlowScales
    /\ registry \in Registries
    /\ calls = [op \in Ops |-> 0]
    /\ img_size = None
    /\ scene = None
    /\ flow = None
    /\ T = None
    /\ kernel = None
    /\ start_index = None
    /\ end_index = None
    /\ iter = 0
    /\ middle_index = None
    /\ t_step = None
    /\ time = None
    /\ flow_f = None
    /\ flow_b = None
    /\ all_pts_f = None
    /\ all_pts_b = None
    /\ all_pts_flowed = None
    /\ all_side_ids = None
    /\ pred_img = None
    /\ frames = None
    /\ video = None
    /\ failure = None

perFrame == <<middle_index, t_step, time, flow_f, flow_b, all_pts_f, all_pts_b,
              all_pts_flowed, all_side_ids, pred_img>>

\* get_input_data: the depth estimator runs once, here
GetInputData ==
    /\ pc = "start"
    /\ calls' = Invoke(calls, "run_dpt")
    /\ pc' = "load_model"
    /\ UNCHANGED <<n_frames, flow_scale, registry, img_size, static, iter,
                   perFrame, frames, video, failure>>

\* SpaceTimeAnimationModel(...); start_step == 0 raises
LoadModel ==
    /\ pc = "load_model"
    /\ \E start_step \in {0, 1} :
          IF start_step = 0
          THEN /\ failure' = "NoPretrainedModel"
               /\ pc' = "failed"
          ELSE /\ failure' = failure
               /\ pc' = "process_data"
    /\ UNCHANGED <<n_frames, flow_scale, registry, calls, img_size, static,
                   iter, perFrame, frames, video>>

\* renderer.process_data(data)
ProcessData ==
    /\ pc = "process_data"
    /\ calls' = Invoke(calls, "process_data")
    /\ img_size' \in RenderSizes
    /\ pc' = "compute_flow"
    /\ UNCHANGED <<n_frames, flow_scale, registry, static, iter, perFrame,
                   frames, video, failure>>

\* coord, flow, pts_src, ... = renderer.compute_flow_and_inpaint()
\* flow = flow / args.flow_scale
ComputeFlowAndInpaint ==
    /\ pc = "compute_flow"
    /\ calls' = Invoke(calls, "compute_flow_and_inpaint")
    /\ \E layers \in LayerChoices, raw \in RawFlows :
          /\ scene' = [coord |-> "coord", pts_src |-> layers,
                       featmaps_src |-> layers, rgba_layers_src |-> layers,
                       depth_layers_src |-> layers, mask_layers_src |-> layers]
          /\ flow' = ScaleFlow(raw, flow_scale)
    /\ pc' = "camera_path"
    /\ UNCHANGED <<n_frames, flow_scale, registry, img_size, T, kernel,
                   start_index, end_index, iter, perFrame, frames, video,
                   failure>>

\* Ts = [define_camera_path(num_frames[0], ..., path_type=...)]
\* crop = 32; kernel = torch.ones(5, 5)
DefineCameraPath ==
    /\ pc = "camera_path"
    /\ calls' = Invoke(calls, "define_camera_path")
    /\ LET Ts == define_camera_path(n_frames, PathType, registry)
       IN  IF PathType \notin registry
           THEN /\ failure' = Ts
                /\ pc' = "failed"
                /\ UNCHANGED <<T, kernel>>
           ELSE /\ T' = Ts
                /\ kernel' = <<KernelSize, KernelSize>>
                /\ pc' = "enter_path"
                /\ UNCHANGED failure
    /\ UNCHANGED <<n_frames, flow_scale, registry, img_size, scene, flow,
                   start_index, end_index, iter, perFrame, frames, video>>

\* for j, T in enumerate(Ts): time_steps, start_index, end_index, frames = []
EnterPath ==
    /\ pc = "enter_path"
    /\ start_index' = 0
    /\ end_index' = n_frames - 1
    /\ frames' = <<>>
    /\ iter' = 0
    /\ pc' = "frame_loop"
    /\ UNCHANGED <<n_frames, flow_scale, registry, calls, img_size, scene,
                   flow, T, kernel, perFrame, video, failure>>

\* for middle_index, t_step in enumerate(time_steps): ... time = ...
NextFrame ==
    /\ pc = "frame_loop"
    /\ ~LoopExhausted(iter, RangeLen(0, n_frames))
    /\ middle_index' = iter
    /\ t_step' = 0 + iter
    /\ time' = TimeOf(iter, start_index, end_index)
    /\ iter' = iter + 1
    /\ pc' = "integrate"
    /\ UNCHANGED <<n_frames, flow_scale, registry, calls, img_size, static,
                   flow_f, flow_b, all_pts_f, all_pts_b, all_pts_flowed,
                   all_side_ids, pred_img, frames, video, failure>>

\* counts after the two euler_integration calls of one frame
CallsAfterIntegrateRecompute(c) ==
    Invoke(Invoke(Invoke(c, "compute_flow_and_inpaint"), "euler_integration"),
           "euler_integration")

CallsAfterIntegrate(c) ==
    Invoke(Invoke(c, "euler_integration"), "euler_integration")

\* the field after the backward integration was asked for (-flow is a new
\* tensor: the field itself is left alone)
FieldAfterNegationInPlace(f) == -f

FieldAfterNegation(f) == f

\* flow_f = euler_integration(flow, middle - start)
\* flow_b = euler_integration(-flow, end + 1 - middle)
Integrate ==
    /\ pc = "integrate"
    /\ flow_f' = euler_integration(flow, ForwardSteps(middle_index, start_index))
    /\ flow_b' = euler_integration(-flow, BackwardSteps(middle_index, end_index))
    /\ flow' = FieldAfterNegation(flow)
    /\ calls' = CallsAfterIntegrate(calls)
    /\ pc' = "warp"
    /\ UNCHANGED <<n_frames, flow_scale, registry, img_size, scene, T, kernel,
                   start_index, end_index, iter, middle_index, t_step, time,
                   all_pts_f, all_pts_b, all_pts_flowed, all_side_ids,
                   pred_img, frames, video, failure>>

\* the two renderer.compute_scene_flow_for_motion calls, each returning one
\* point tensor per layer, then
\* all_pts_flowed = torch.cat(all_pts_f + all_pts_b); all_side_ids = ...
WarpAndTag ==
    /\ pc = "warp"
    /\ all_pts_f' \in LayerCounts(scene.pts_src)
    /\ all_pts_b' \in LayerCounts(scene.pts_src)
    /\ calls' = Invoke(Invoke(calls, "compute_scene_flow_for_motion"),
                       "compute_scene_flow_for_motion")
    /\ all_pts_flowed' = SumLen(all_pts_f' \o all_pts_b')
    /\ all_side_ids' = SideIds(SumLen(all_pts_f' \o all_pts_b'),
                               SumLen(all_pts_b'))
    /\ pc' = "render"
    /\ UNCHANGED <<n_frames, flow_scale, registry, img_size, static, iter,
                   middle_index, t_step, time, flow_f, flow_b, pred_img,
                   frames, video, failure>>

\* pred_img, _, meta = renderer.render_pcd(..., t=T[middle_index], time=time,
\*                                         t_step=t_step, path_type='side')
RenderPcd ==
    /\ pc = "render"
    /\ calls' = Invoke(calls, "render_pcd")
    /\ pred_img' = [t |-> T[middle_index + 1], time |-> time,
                    t_step |-> t_step, path_type |-> VideoPath,
                    shape |-> img_size]
    /\ pc' = "append"
    /\ UNCHANGED <<n_frames, flow_scale, registry, img_size, static, iter,
                   middle_index, t_step, time, flow_f, flow_b, all_pts_f,
                   all_pts_b, all_pts_flowed, all_side_ids, frames, video,
                   failure>>

\* a driver that hands the frames to the encoder after every frame
CropAndAppendWriting ==
    /\ pc = "append"
    /\ frames' = Append(frames, [t_step |-> pred_img.t_step,
                                 t |-> pred_img.t,
                                 time |-> pred_img.time,
                                 shape |-> CropShape(pred_img.shape)])
    /\ calls' = Invoke(calls, "mimwrite")
    /\ video' = [file |-> <<VideoPath, flow_scale>>, frames |-> frames',
                 fps |-> Fps, quality |-> Quality]
    /\ pc' = "frame_loop"
    /\ UNCHANGED <<n_frames, flow_scale, registry, img_size, static,
                   iter, perFrame, failure>>

\* frame = (255 * pred_img ...).astype(uint8); frame = frame[crop:-crop, ...]
\* frames.append(frame)
CropAndAppend ==
    /\ pc = "append"
    /\ frames' = AppendFrame(frames, [t_step |-> pred_img.t_step,
                                      t |-> pred_img.t,
                                      time |-> pred_img.time,
                                      shape |-> CropShape(pred_img.shape)])
    /\ pc' = "frame_loop"
    /\ UNCHANGED <<n_frames, flow_scale, registry, calls, img_size, static,
                   iter, perFrame, video, failure>>

\* imageio.mimwrite(video_out_file, frames, fps=25, quality=8)
WriteVideo ==
    /\ pc = "frame_loop"
    /\ LoopExhausted(iter, RangeLen(0, n_frames))
    /\ calls' = Invoke(calls, "mimwrite")
    /\ video' = [file |-> <<VideoPath, flow_scale>>, frames |-> frames,
                 fps |-> Fps, quality |-> Quality]
    /\ pc' = "done"
    /\ UNCHANGED <<n_frames, flow_scale, registry, img_size, static, iter,
                   perFrame, frames, failure>>

\* an exception raised by a collaborator, or an interrupt, ends the run
Abort ==
    /\ pc \notin {"start", "done", "failed"}
    /\ failure' = "Aborted"
    /\ pc' = "failed"
    /\ UNCHANGED <<n_frames, flow_scale, registry, calls, img_size, static,
                   iter, perFrame, frames, video>>

Next ==
    \/ GetInputData
    \/ LoadModel
    \/ ProcessData
    \/ ComputeFlowAndInpaint
    \/ DefineCameraPath
    \/ EnterPath
    \/ NextFrame
    \/ Integrate
    \/ WarpAndTag
    \/ RenderPcd
    \/ CropAndAppend
    \/ WriteVideo
    \/ Abort

Spec == Init /\ [][Next]_vars

----------------------------------------------------------------------------
(* The time computation on its own, over frame counts around 2^24, where  *)
(* float32 stops holding every integer.  The loop cannot be stepped that  *)
(* far, so the start of the probe is drawn and the loop header is applied *)
(* to the first and the last ProbeWindow indices.                          *)

F32Exact == Pow2(F32Mantissa)

ProbeFrameCounts ==
    (1..MaxFrames) \cup {F32Exact + d : d \in -2..3}

Probed(i, n) == i < ProbeWindow \/ i >= n - ProbeWindow

InitTime ==
    /\ pc = "time_probe"
    /\ n_frames \in ProbeFrameCounts
    /\ flow_scale = 1
    /\ registry = {PathType}
    /\ calls = [op \in Ops |-> 0]
    /\ img_size = None
    /\ scene = None
    /\ flow = None
    /\ T = None
    /\ kernel = None
    /\ start_index = 0
    /\ end_index = n_frames - 1
    /\ iter \in {0, Max(0, n_frames - ProbeWindow)}
    /\ middle_index = None
    /\ t_step = None
    /\ time = None
    /\ flow_f = None
    /\ flow_b = None
    /\ all_pts_f = None
    /\ all_pts_b = None
    /\ all_pts_flowed = None
    /\ all_side_ids = None
    /\ pred_img = None
    /\ frames = <<>>
    /\ video = None
    /\ failure = None

\* the loop header of one frame: middle_index, t_step, time
TimeProbe ==
    /\ pc \in {"time_probe", "time_probed"}
    /\ ~LoopExhausted(iter, RangeLen(0, n_frames))
    /\ Probed(iter, n_frames)
    /\ middle_index' = iter
    /\ t_step' = 0 + iter
    /\ time' = TimeOf(iter, start_index, end_index)
    /\ iter' = iter + 1
    /\ pc' = "time_probed"
    /\ UNCHANGED <<n_frames, flow_scale, registry, calls, img_size, static,
                   flow_f, flow_b, all_pts_f, all_pts_b, all_pts_flowed,
                   all_side_ids, pred_img, frames, video, failure>>

NextTime == TimeProbe

SpecTime == InitTime /\ [][NextTime]_vars

----------------------------------------------------------------------------
(* Properties *)

InFrame == pc \in {"integrate", "warp", "render", "append"}
InLoop == pc = "frame_loop" \/ InFrame
NumF == SumLen(all_pts_f)
NumB == SumLen(all_pts_b)

\* C1: once the forward and backward point sets of a frame are concatenated,
\* the side-tag vector has |F|+|B| entries, the last |B| of them 1 and the
\* |F| before them 0, for every pair of sizes (|B| = 0 included).
C1_SideTagsSplit ==
    pc \in {"render", "append"} =>
        /\ Len(all_side_ids) = NumF + NumB
        /\ \A k \in 1..Len(all_side_ids) :
              all_side_ids[k] = IF k > NumF THEN 1 ELSE 0

C3_IntegrationSteps ==
    pc = "warp" =>
        /\ start_index = 0
        /\ end_index = n_frames - 1
        /\ middle_index \in 0..(n_frames - 1)
        /\ flow_f.field = flow
        /\ flow_f.steps = middle_index - start_index
        /\ flow_b.field = -flow
        /\ flow_b.steps = end_index - middle_index + 1
        /\ (middle_index = 0 => flow_f.steps = 0)
        /\ flow_b.steps >= 1
        /\ flow_f.steps + flow_b.steps = n_frames

C3_LastFrameIntegrated ==
    /\ pc = "warp"
    /\ n_frames >= 2
    /\ middle_index = n_frames - 1
    /\ flow_b.steps = 1

\* C4: frames are rendered and assembled in increasing index order: during
\* the loop the frame list holds exactly the frames of indices 0..k-1 in
\* that order, and the encoder is handed n_frames frames, the k-th being
\* the one rendered for index k.
FrameIsOfIndex(f, k) ==
    /\ f.t_step = k
    /\ f.t = T[k + 1]
    /\ f.time = TimeOf(k, start_index, end_index)

C4_FramesInOrder ==
    /\ InLoop =>
          /\ Len(frames) = IF pc = "frame_loop" THEN iter ELSE middle_index
          /\ \A k \in 1..Len(frames) : FrameIsOfIndex(frames[k], k - 1)
    /\ pc = "done" =>
          /\ Len(video.frames) = n_frames
          /\ \A k \in 1..n_frames : FrameIsOfIndex(video.frames[k], k - 1)

C4_VideoOfSeveralFrames ==
    /\ pc = "done"
    /\ n_frames >= 2
    /\ Len(video.frames) = n_frames

\* C5: a frame whose forward and backward point sets are both empty is
\* never handed to render_pcd.
C5_EmptySceneFlowNotRendered ==
    (pc \in {"render", "append"} /\ NumF = 0 /\ NumB = 0) =>
        pc # "append"

\* C6: an empty frame sequence is never handed to the video encoder.
C6_EmptySequenceNotEncoded ==
    calls["mimwrite"] > 0 => Len(video.frames) > 0

\* C7: the video is written only once all n_frames frames are rendered and
\* appended: once, after the loop, never while frames are still missing; a
\* run that stopped earlier has written no video.
C7_NoPartialVideo ==
    /\ calls["mimwrite"] <= 1
    /\ calls["mimwrite"] = 0 => video = None
    /\ calls["mimwrite"] > 0 =>
          /\ pc = "done"
          /\ iter = n_frames
          /\ calls["render_pcd"] = n_frames
          /\ Len(frames) = n_frames
          /\ video.frames = frames

C7_AbortedBetweenFrames ==
    /\ pc = "failed"
    /\ failure = "Aborted"
    /\ iter >= 1
    /\ Len(frames) >= 1
    /\ Len(frames) < n_frames
    /\ calls["mimwrite"] = 0

\* C8: depth estimation and scene-flow estimation with inpainting have each
\* run exactly once when the frame loop starts, and never run again.
C8_CollaboratorsBeforeLoop ==
    /\ calls["run_dpt"] <= 1
    /\ calls["compute_flow_and_inpaint"] <= 1
    /\ (InLoop \/ pc = "done" \/ iter >= 1) =>
          /\ calls["run_dpt"] = 1
          /\ calls["compute_flow_and_inpaint"] = 1

C8_SecondFrameIntegrated ==
    /\ pc = "warp"
    /\ iter >= 2
    /\ calls["euler_integration"] >= 4

\* C9: every step of the frame loop leaves the layered scene, the flow
\* field, the camera path, the kernel and the start/end indices as they
\* are, and leaves the frame list alone or appends one frame to it.
C9_StaticSceneUnchanged ==
    [][InLoop =>
          /\ static' = static
          /\ \/ frames' = frames
             \/ /\ Len(frames') = Len(frames) + 1
                /\ SubSeq(frames', 1, Len(frames)) = frames]_vars

C9_LoopRanTwice ==
    /\ pc = "frame_loop"
    /\ Len(frames) = 2
    /\ flow_b.field = -flow

\* C10 as stated: at every frame the time is i / n_frames, 0 at the first
\* frame and below 1, for every n_frames >= 1.
C10_TimeBelowOneAlways ==
    pc = "time_probed" =>
        /\ (middle_index = 0 => TimeIsZero(time))
        /\ TimeBelowOne(time)

\* C10 as amended: for 1 <= n_frames <= 2^24 the time of frame i is
\* i / n_frames: 0 at the first frame, strictly increasing in i and below 1
\* at every frame.
C10_TimeBelowOneUpToF32 ==
    /\ [](pc = "time_probed" /\ n_frames <= F32Exact =>
            /\ time.num = middle_index
            /\ time.den = n_frames
            /\ (middle_index = 0 => TimeIsZero(time))
            /\ TimeBelowOne(time))
    /\ [][(pc = "time_probed" /\ pc' = "time_probed" /\ n_frames <= F32Exact)
            => TimeLess(time, time')]_vars

C10_LastFrameAtF32Limit ==
    /\ pc = "time_probed"
    /\ n_frames = F32Exact
    /\ middle_index = n_frames - 1
    /\ time.num = F32Exact - 1

====
